---- MODULE Spec2Model ----
(***************************************************************************)
(* DupliCheck-linux.py: find_duplicates walks a directory tree, hashes     *)
(* every file (consulting a JSON cache of (mtime, size) signatures),       *)
(* groups the paths by hash, deletes all but the first path of every       *)
(* group and appends Kept / Deleted / Failed rows to a CSV log.            *)
(*                                                                         *)
(* The model runs find_duplicates up to MaxRuns times over a tree of       *)
(* NumPaths paths.  The environment (other processes, the user) may        *)
(* write, remove or chmod files, between runs and during a run; the cache  *)
(* file and the log file live outside the scanned tree.                    *)
(***************************************************************************)
EXTENDS Integers, Sequences, FiniteSets, TLC

\* ---------------------------------------------------------------- bounds
NumPaths == 3
MaxRuns == 2
MaxEnvEvents == 1

\* Paths in the order os.walk enumerates them.
Paths == 1..NumPaths
\* Byte contents of a file; both are five bytes long.
Contents == {"hello", "world"}
Perms == {"ok", "noread", "nodelete"}

VARIABLES
    fs,             \* the scanned tree: path -> file
    cacheFile,      \* ~/Duplifiles/.file_hash_cache.json
    logFile,        \* ~/Duplifiles/duplicate_cleanup_log.csv
    pc,             \* where find_duplicates is
    runs,           \* runs started so far; also the wall clock
    cache,          \* find_duplicates: cache
    updated_cache,  \* find_duplicates: updated_cache
    hashes,         \* find_duplicates: hashes, in insertion order
    all_files,      \* find_duplicates: all_files
    idx,            \* position of the hashing loop in all_files
    duplicates,     \* find_duplicates: duplicates, in insertion order
    grp,            \* position of the loop over duplicates.values()
    pos,            \* position in file_list[1:]; 0 = the kept file is next
    file_hash,      \* find_duplicates: file_hash of the resolution loop
    timestamp,      \* find_duplicates: timestamp
    total_deleted,  \* find_duplicates: total_deleted
    envLeft,        \* environment events still allowed
    lastEventRun,   \* value of runs when the environment last acted
    startFs,        \* the tree when the current run started
    prevStartFs,    \* the tree when the previous run started
    reads           \* paths hash_file was called on in the hashing loop

vars == <<fs, cacheFile, logFile, pc, runs, cache, updated_cache, hashes,
          all_files, idx, duplicates, grp, pos, file_hash, timestamp,
          total_deleted, envLeft, lastEventRun, startFs, prevStartFs, reads>>

progVars == <<cache, updated_cache, hashes, all_files, idx, duplicates, grp,
              pos, file_hash, timestamp, total_deleted>>

\* ------------------------------------------------------------ filesystem
NoFile == [exists |-> FALSE, content |-> "", mtime |-> 0, perm |-> "ok"]

NewFile(c, m, p) == [exists |-> TRUE, content |-> c, mtime |-> m, perm |-> p]

\* st_size of a file holding content c.
SizeOf(c) == IF c \in Contents THEN 5 ELSE 0

None == [none |-> TRUE]

\* hashlib.sha256 over the whole content: injective on Contents.
Sha256(c) == <<"sha256", c>>

\* hash_file(path): open(path, 'rb') raises when the file is gone or unreadable.
hash_file(f) ==
    IF ~f.exists THEN [ok |-> FALSE, err |-> "FileNotFoundError"]
    ELSE IF f.perm = "noread" THEN [ok |-> FALSE, err |-> "PermissionError"]
    ELSE [ok |-> TRUE, val |-> Sha256(f.content)]

\* A signature read from st_atime: the time the file was last read.
get_file_signature_atime(f) ==
    IF f.exists THEN <<"tuple", runs - 1, SizeOf(f.content)>> ELSE None

\* get_file_signature(path): a Python tuple, or None when the file is gone.
get_file_signature(f) ==
    IF f.exists THEN <<"tuple", f.mtime, SizeOf(f.content)>> ELSE None

\* os.remove(path)
os_remove(f) ==
    IF ~f.exists THEN [ok |-> FALSE, err |-> "FileNotFoundError"]
    ELSE IF f.perm = "nodelete" THEN [ok |-> FALSE, err |-> "PermissionError"]
    ELSE [ok |-> TRUE]

\* --------------------------------------------------------------- cache
EmptyMap == [p \in {} |-> None]

\* json.dump writes a tuple (or a list) as a JSON array.
JsonDumpSig(sig) == <<"array", sig[2], sig[3]>>

\* json.load reads a JSON array back as a Python list.
JsonLoadSig(arr) == <<"list", arr[2], arr[3]>>

\* save_cache(cache): the file is replaced wholesale.
save_cache(c) ==
    [exists |-> TRUE,
     data |-> [p \in DOMAIN c |-> [sig |-> JsonDumpSig(c[p].sig), hash |-> c[p].hash]]]

\* load_cache(): {} when there is no cache file.
load_cache(file) ==
    IF file.exists
    THEN [p \in DOMAIN file.data |->
            [sig |-> JsonLoadSig(file.data[p].sig), hash |-> file.data[p].hash]]
    ELSE EmptyMap

\* The (mtime, size) a signature holds, whatever sequence type holds it.
SigValue(sig) == <<sig[2], sig[3]>>

\* A comparison of what the two signatures hold.
PyEq_ByValue(a, b) == SigValue(a) = SigValue(b)

\* Python's ==: a list and a tuple are never equal, whatever they hold.
PyEq(a, b) == a = b

\* cached_entry and cached_entry['sig'] == sig
CacheHit(c, p, sig) == p \in DOMAIN c /\ PyEq(c[p].sig, sig)

\* updated_cache[key] = {...}
MapPut(m, k, v) == [q \in DOMAIN m \cup {k} |-> IF q = k THEN v ELSE m[q]]

\* ------------------------------------------------------------- grouping
GroupIndex(hs, h) ==
    IF \E k \in 1..Len(hs) : hs[k].hash = h
    THEN CHOOSE k \in 1..Len(hs) : hs[k].hash = h
    ELSE 0

\* hashes[file_hash].append(file_path) on a defaultdict(list)
AppendToGroup(hs, h, p) ==
    LET k == GroupIndex(hs, h) IN
    IF k = 0 THEN Append(hs, [hash |-> h, paths |-> <<p>>])
    ELSE [hs EXCEPT ![k].paths = Append(@, p)]

IsDuplicateGroup(grp_) == Len(grp_.paths) > 1

\* {h: paths for h, paths in hashes.items() if len(paths) > 1}
DuplicatesOf(hs) == SelectSeq(hs, IsDuplicateGroup)

\* os.walk: every file of the tree, in enumeration order.
RECURSIVE WalkFrom(_, _)
WalkFrom(tree, p) ==
    IF p > NumPaths THEN <<>>
    ELSE IF tree[p].exists THEN <<p>> \o WalkFrom(tree, p + 1)
    ELSE WalkFrom(tree, p + 1)

Walk(tree) == WalkFrom(tree, 1)

\* ------------------------------------------------------------------ log
Header == [ts |-> 0, action |-> "Header", path |-> 0, hash |-> Sha256(""), err |-> ""]

Row(ts, action, path, h, err) ==
    [ts |-> ts, action |-> action, path |-> path, hash |-> h, err |-> err]

\* The header written on every run.
OpenLog_AlwaysHeader(log) ==
    [exists |-> TRUE, rows |-> Append(log.rows, Header)]

\* open(LOG_FILE, 'a') and the header when the file did not exist.
OpenLog(log) ==
    IF log.exists THEN log ELSE [exists |-> TRUE, rows |-> <<Header>>]

WriteRow(log, row) == [log EXCEPT !.rows = Append(@, row)]

\* kept_file = file_list[0]
KeptOf(file_list) == Head(file_list)

\* A slice that starts at the kept file: file_list[0:].
DupsOf_All(file_list) == file_list

\* file_list[1:]
DupsOf(file_list) == Tail(file_list)

\* total_deleted += 1 placed after the try statement.
CountAfterRemove_Always(n, ok) == n + 1

\* total_deleted += 1 is reached only when os.remove returned.
CountAfterRemove(n, ok) == IF ok THEN n + 1 ELSE n

\* An updated_cache that starts from the loaded cache.
InitialUpdatedCache_Loaded == load_cache(cacheFile)

\* updated_cache = {}
InitialUpdatedCache == EmptyMap

\* ----------------------------------------------------------------- Init
Init ==
    /\ fs \in [Paths -> {NewFile(c, 0, "ok") : c \in Contents}]
    /\ cacheFile = [exists |-> FALSE, data |-> EmptyMap]
    /\ logFile = [exists |-> FALSE, rows |-> <<>>]
    /\ pc = "idle"
    /\ runs = 0
    /\ cache = EmptyMap
    /\ updated_cache = EmptyMap
    /\ hashes = <<>>
    /\ all_files = <<>>
    /\ idx = 1
    /\ duplicates = <<>>
    /\ grp = 1
    /\ pos = 0
    /\ file_hash = Sha256("")
    /\ timestamp = 0
    /\ total_deleted = 0
    /\ envLeft = MaxEnvEvents
    /\ lastEventRun = 0
    /\ startFs = fs
    /\ prevStartFs = fs
    /\ reads = {}

\* -------------------------------------------------------------- the run
\* A new invocation: load_cache and the os.walk enumeration.
StartRun ==
    /\ pc \in {"idle", "done", "aborted"}
    /\ runs < MaxRuns
    /\ runs' = runs + 1
    /\ cache' = load_cache(cacheFile)
    /\ updated_cache' = InitialUpdatedCache
    /\ hashes' = <<>>
    /\ all_files' = Walk(fs)
    /\ idx' = 1
    /\ duplicates' = <<>>
    /\ grp' = 1
    /\ pos' = 0
    /\ file_hash' = Sha256("")
    /\ timestamp' = 0
    /\ total_deleted' = 0
    /\ pc' = "hashing"
    /\ startFs' = fs
    /\ prevStartFs' = startFs
    /\ reads' = {}
    /\ UNCHANGED <<fs, cacheFile, logFile, envLeft, lastEventRun>>

\* One iteration of the hashing loop.
HashStep ==
    /\ pc = "hashing"
    /\ idx <= Len(all_files)
    /\ LET p == all_files[idx]
           sig == get_file_signature(fs[p])
           hit == sig # None /\ CacheHit(cache, p, sig)
           r == hash_file(fs[p])
           h == IF hit THEN cache[p].hash ELSE r.val
       IN  /\ reads' = IF sig # None /\ ~hit THEN reads \cup {p} ELSE reads
           /\ IF sig = None \/ (~hit /\ ~r.ok)
              THEN UNCHANGED <<updated_cache, hashes>>
              ELSE /\ updated_cache' = MapPut(updated_cache, p, [sig |-> sig, hash |-> h])
                   /\ hashes' = AppendToGroup(hashes, h, p)
    /\ idx' = idx + 1
    /\ UNCHANGED <<fs, cacheFile, logFile, pc, runs, cache, all_files, duplicates,
                   grp, pos, file_hash, timestamp, total_deleted, envLeft,
                   lastEventRun, startFs, prevStartFs>>

\* The log opened before the early return.
LogAfterGate_Early(log, dups) == OpenLog(log)

\* The log as the run leaves it before the resolution loop.
LogAfterGate(log, dups) == IF dups = <<>> THEN log ELSE OpenLog(log)

\* save_cache, the duplicates filter, the early return, and the log's opening.
SaveStep ==
    /\ pc = "hashing"
    /\ idx > Len(all_files)
    /\ cacheFile' = save_cache(updated_cache)
    /\ duplicates' = DuplicatesOf(hashes)
    /\ logFile' = LogAfterGate(logFile, duplicates')
    /\ IF duplicates' = <<>>
       THEN pc' = "done" /\ UNCHANGED timestamp
       ELSE pc' = "resolving" /\ timestamp' = runs
    /\ grp' = 1
    /\ pos' = 0
    /\ UNCHANGED <<fs, runs, cache, updated_cache, hashes, all_files, idx, file_hash,
                   total_deleted, envLeft, lastEventRun, startFs, prevStartFs, reads>>

\* The loop position after file_list[pos] of group grp.
Advance ==
    IF pos < Len(DupsOf(duplicates[grp].paths))
    THEN pc' = "resolving" /\ pos' = pos + 1 /\ grp' = grp
    ELSE IF grp < Len(duplicates)
    THEN pc' = "resolving" /\ pos' = 0 /\ grp' = grp + 1
    ELSE pc' = "done" /\ pos' = pos /\ grp' = grp

\* kept_file = file_list[0]; its re-hash is outside every try.
KeepStep ==
    /\ pc = "resolving"
    /\ pos = 0
    /\ LET kept_file == KeptOf(duplicates[grp].paths)
           r == hash_file(fs[kept_file])
       IN  IF r.ok
           THEN /\ file_hash' = r.val
                /\ logFile' = WriteRow(logFile, Row(timestamp, "Kept", kept_file, r.val, ""))
                /\ pc' = "resolving" /\ pos' = 1 /\ grp' = grp
           ELSE /\ pc' = "aborted"
                /\ UNCHANGED <<file_hash, logFile, pos, grp>>
    /\ UNCHANGED <<fs, cacheFile, runs, cache, updated_cache, hashes, all_files, idx,
                   duplicates, timestamp, total_deleted, envLeft, lastEventRun,
                   startFs, prevStartFs, reads>>

\* One iteration of the loop over file_list[1:].
RemoveStep ==
    /\ pc = "resolving"
    /\ pos >= 1
    /\ LET duplicate == DupsOf(duplicates[grp].paths)[pos]
           r == os_remove(fs[duplicate])
       IN  IF r.ok
           THEN /\ fs' = [fs EXCEPT ![duplicate] = NoFile]
                /\ logFile' = WriteRow(logFile,
                                Row(timestamp, "Deleted", duplicate, file_hash, ""))
                /\ total_deleted' = CountAfterRemove(total_deleted, TRUE)
           ELSE /\ logFile' = WriteRow(logFile,
                                Row(timestamp, "Failed", duplicate, file_hash, r.err))
                /\ total_deleted' = CountAfterRemove(total_deleted, FALSE)
                /\ UNCHANGED fs
    /\ Advance
    /\ UNCHANGED <<cacheFile, runs, cache, updated_cache, hashes, all_files, idx,
                   duplicates, file_hash, timestamp, envLeft, lastEventRun,
                   startFs, prevStartFs, reads>>

\* ------------------------------------------------------ the environment
EnvDone ==
    /\ envLeft > 0
    /\ envLeft' = envLeft - 1
    /\ lastEventRun' = runs
    /\ UNCHANGED <<cacheFile, logFile, pc, runs, startFs, prevStartFs, reads>>
    /\ UNCHANGED progVars

\* A file is written or created; its mtime is now, or set back to 0.
EnvWrite ==
    /\ \E p \in Paths, c \in Contents, m \in {0, runs} :
          LET f == NewFile(c, m, fs[p].perm) IN
          /\ f # fs[p]
          /\ fs' = [fs EXCEPT ![p] = f]
    /\ EnvDone

\* A file is removed by someone else.
EnvVanish ==
    /\ \E p \in Paths :
          /\ fs[p].exists
          /\ fs' = [fs EXCEPT ![p] = NoFile]
    /\ EnvDone

\* A file or its directory changes permissions.
EnvChmod ==
    /\ \E p \in Paths, q \in Perms :
          /\ fs[p].exists
          /\ fs[p].perm # q
          /\ fs' = [fs EXCEPT ![p].perm = q]
    /\ EnvDone

Next ==
    \/ StartRun
    \/ HashStep
    \/ SaveStep
    \/ KeepStep
    \/ RemoveStep
    \/ EnvWrite
    \/ EnvVanish
    \/ EnvChmod

Spec == Init /\ [][Next]_vars

\* ======================================================== the properties
\* No environment event since the current run started.
Quiet == lastEventRun < runs

\* Every file of the tree is readable and deletable.
AllOk(tree) == \A p \in Paths : tree[p].exists => tree[p].perm = "ok"

\* p is the first file of the tree, in enumeration order, with its content.
FirstOfContent(tree, p) ==
    \A q \in Paths : (q < p /\ tree[q].exists) => tree[q].content # tree[p].content

\* No two files of the tree hold the same content.
NoDupContent(tree) ==
    \A p, q \in Paths :
        (p # q /\ tree[p].exists /\ tree[q].exists) => tree[p].content # tree[q].content

\* The rows the current run wrote.
RunRows == IF logFile.exists THEN SelectSeq(logFile.rows, LAMBDA r : r.ts = runs) ELSE <<>>

\* The paths of a sequence of paths.
Range(seq) == {seq[k] : k \in 1..Len(seq)}

\* C1: after a run over a tree whose files are all readable and deletable and
\* that nothing else changes, the run has ended normally, of every set of
\* files with the same content exactly the first in enumeration order is left,
\* untouched, and so is every file whose content is unique.
C1_FirstKept ==
    (Quiet /\ AllOk(startFs) /\ runs >= 1) =>
        /\ pc # "aborted"
        /\ pc = "done" =>
             \A p \in Paths :
                startFs[p].exists =>
                    IF FirstOfContent(startFs, p)
                    THEN fs[p] = startFs[p]
                    ELSE ~fs[p].exists

\* C1's case: a finished undisturbed run that deleted a copy and left both the
\* first copy and a file of unique content.
C1_Witness ==
    /\ pc = "done" /\ Quiet /\ AllOk(startFs)
    /\ total_deleted >= 1
    /\ \E p, q, u \in Paths :
          /\ p < q /\ startFs[p].exists /\ startFs[q].exists /\ startFs[u].exists
          /\ startFs[p].content = startFs[q].content
          /\ startFs[u].content # startFs[p].content
          /\ fs[p].exists /\ ~fs[q].exists /\ fs[u].exists

\* C2: in the hashing loop, a path whose current (mtime, size) equals the
\* signature the loaded cache stores for it is not passed to hash_file, and the
\* hash recorded for it is the stored one.
C2_CacheHit ==
    (pc = "hashing" /\ Quiet) =>
        \A k \in 1..(idx - 1) :
            LET p == all_files[k] IN
            (/\ p \in DOMAIN cache
             /\ fs[p].exists
             /\ SigValue(cache[p].sig) = <<fs[p].mtime, SizeOf(fs[p].content)>>)
            => /\ p \notin reads
               /\ p \in DOMAIN updated_cache
               /\ updated_cache[p].hash = cache[p].hash

\* The resolution loop is at a path of file_list[1:] and this step attempts it.
AttemptsRemove ==
    /\ pc = "resolving" /\ pos >= 1
    /\ <<pc', grp', pos'>> # <<pc, grp, pos>>

\* The path the resolution loop is at.
CurrentDup == duplicates[grp].paths[pos + 1]

\* os.remove raises for the file: it is gone, or its directory is read-only.
RemoveRaises(f) == ~f.exists \/ f.perm = "nodelete"

\* The rows of the current run that record an attempt on path p.
AttemptRows(p) ==
    SelectSeq(RunRows, LAMBDA r : r.path = p /\ r.action \in {"Deleted", "Failed"})

\* C3 (the step): when os.remove fails for a path, the tree is left as it is,
\* one Failed row naming the path, with the error text, is appended, the
\* count of deleted files stays, and the loop moves on to the next path, the
\* next group or the end of the run.
C3_FailedStep ==
    (AttemptsRemove /\ RemoveRaises(fs[CurrentDup])) =>
        /\ fs' = fs
        /\ logFile'.rows = Append(logFile.rows,
              [ts |-> timestamp, action |-> "Failed", path |-> CurrentDup,
               hash |-> file_hash,
               err |-> IF fs[CurrentDup].exists THEN "PermissionError"
                       ELSE "FileNotFoundError"])
        /\ total_deleted' = total_deleted
        /\ IF pos + 1 < Len(duplicates[grp].paths)
           THEN pc' = "resolving" /\ grp' = grp /\ pos' = pos + 1
           ELSE IF grp < Len(duplicates)
           THEN pc' = "resolving" /\ grp' = grp + 1 /\ pos' = 0
           ELSE pc' = "done"

\* C3 (the run): no path has more than one Deleted or Failed row in a run, and
\* the count of deleted files is the number of Deleted rows of the run.
C3_AttemptedOnce ==
    /\ \A p \in Paths : Len(AttemptRows(p)) <= 1
    /\ pc \in {"resolving", "done", "aborted"} =>
          total_deleted = Len(SelectSeq(RunRows, LAMBDA r : r.action = "Deleted"))

C4_NeverAborts == pc # "aborted"

\* C5 (the step): an existing log keeps its rows; rows are only added after them.
C5_AppendStep ==
    logFile.exists =>
        /\ logFile'.exists
        /\ Len(logFile'.rows) >= Len(logFile.rows)
        /\ SubSeq(logFile'.rows, 1, Len(logFile.rows)) = logFile.rows

\* C5 (the file): the header is the first row and no other row, and the rows
\* are in the order of the runs that wrote them.
C5_HeaderOnce ==
    /\ ~logFile.exists => logFile.rows = <<>>
    /\ logFile.exists =>
          /\ Len(logFile.rows) >= 1
          /\ logFile.rows[1] = Header
          /\ \A k \in 2..Len(logFile.rows) : logFile.rows[k].action # "Header"
          /\ \A k, l \in 1..Len(logFile.rows) :
                k < l => logFile.rows[k].ts <= logFile.rows[l].ts

\* C5: the log is append-only and holds one header, whatever the number of runs.
C5_AppendOnly == [][C5_AppendStep]_vars /\ []C5_HeaderOnce

\* C5's case: two runs have each written rows to the log.
C5_Witness ==
    /\ logFile.exists
    /\ \E k, l \in 1..Len(logFile.rows) :
          logFile.rows[k].ts = 1 /\ logFile.rows[l].ts = 2

\* The group of duplicates that holds path p.
GroupOf(p) == CHOOSE k \in 1..Len(duplicates) : p \in Range(duplicates[k].paths)

\* C6: the hash of every Kept and Deleted row of a run is the hash under which
\* the row's path was grouped in the hashing loop.
C6_GroupHashLogged ==
    \A k \in 1..Len(RunRows) :
        RunRows[k].action \in {"Kept", "Deleted"} =>
            RunRows[k].hash = duplicates[GroupOf(RunRows[k].path)].hash

\* The paths the hashing loop put in a group.
GroupedPaths == UNION {Range(hashes[k].paths) : k \in 1..Len(hashes)}

\* The hashing loop is at a path and this step processes it.
HashesNext == pc = "hashing" /\ idx <= Len(all_files) /\ idx' = idx + 1

\* C7 (the step): the hashing loop records an entry for a path exactly when
\* the file is there and readable, and the entry holds the file's signature
\* and the hash of its content.
C7_EntryStep ==
    HashesNext =>
        LET p == all_files[idx] IN
        IF fs[p].exists /\ fs[p].perm # "noread"
        THEN /\ DOMAIN updated_cache' = DOMAIN updated_cache \cup {p}
             /\ SigValue(updated_cache'[p].sig) = <<fs[p].mtime, SizeOf(fs[p].content)>>
             /\ updated_cache'[p].hash = Sha256(fs[p].content)
             /\ \A q \in DOMAIN updated_cache \ {p} : updated_cache'[q] = updated_cache[q]
        ELSE updated_cache' = updated_cache

\* C7 (the file): once a run has saved the cache, the file holds one entry for
\* each path the run hashed and none for another path; after an undisturbed
\* run these are the readable files of the tree, each with its signature and
\* the hash of its content.
C7_SavedCache ==
    pc \in {"resolving", "done", "aborted"} =>
        /\ cacheFile.exists
        /\ DOMAIN cacheFile.data = GroupedPaths
        /\ DOMAIN cacheFile.data \subseteq Range(all_files)
        /\ \A p \in DOMAIN cacheFile.data :
              /\ SigValue(cacheFile.data[p].sig) = SigValue(updated_cache[p].sig)
              /\ cacheFile.data[p].hash = updated_cache[p].hash
        /\ Quiet =>
              /\ DOMAIN cacheFile.data =
                    {p \in Paths : startFs[p].exists /\ startFs[p].perm # "noread"}
              /\ \A p \in DOMAIN cacheFile.data :
                    /\ SigValue(cacheFile.data[p].sig) =
                          <<startFs[p].mtime, SizeOf(startFs[p].content)>>
                    /\ cacheFile.data[p].hash = Sha256(startFs[p].content)

\* C7: the persisted cache holds exactly the paths hashed in the run.
C7_CacheExact == [][C7_EntryStep]_vars /\ []C7_SavedCache

\* C7's case: a run saved a cache that drops a path of the loaded cache which
\* was not enumerated, and has no entry for an enumerated path.
C7_Witness ==
    /\ pc = "done"
    /\ \E p \in DOMAIN cache : p \notin Range(all_files) /\ p \notin DOMAIN cacheFile.data
    /\ \E q \in Range(all_files) : q \notin DOMAIN cacheFile.data
    /\ DOMAIN cacheFile.data # {}

\* Two successive runs over one tree that nothing changed.
SameTreeTwice ==
    /\ runs >= 2
    /\ lastEventRun < runs - 1
    /\ prevStartFs = startFs

\* C8: the second of two successive runs over the same unchanged tree without
\* duplicates deletes nothing and saves the cache contents the first saved.
C8_Idempotent ==
    (pc \in {"done", "aborted"} /\ SameTreeTwice /\ NoDupContent(startFs)) =>
        /\ pc = "done"
        /\ total_deleted = 0
        /\ fs = startFs
        /\ DOMAIN cacheFile.data = DOMAIN cache
        /\ \A p \in DOMAIN cache :
              /\ SigValue(cacheFile.data[p].sig) = SigValue(cache[p].sig)
              /\ cacheFile.data[p].hash = cache[p].hash

\* C8's case: a second run over the same tree of two files with distinct
\* contents has finished, with both files cached.
C8_Witness ==
    /\ pc = "done" /\ SameTreeTwice /\ NoDupContent(startFs)
    /\ Cardinality(DOMAIN cacheFile.data) >= 2

\* No hash of the hashing loop is shared by two paths.
NoSharedHash == \A k \in 1..Len(hashes) : Len(hashes[k].paths) <= 1

\* A step of the run itself, not of the environment.
RunStep == envLeft' = envLeft /\ runs' = runs

\* C9: a run whose hashing loop yields no shared hash saves the cache and ends
\* without creating or changing the log and without deleting a file.
C9_NoDupStep ==
    (pc = "hashing" /\ idx > Len(all_files) /\ NoSharedHash /\ RunStep) =>
        /\ pc' = "done"
        /\ cacheFile'.exists
        /\ logFile' = logFile
        /\ fs' = fs
        /\ total_deleted' = 0

\* C9: no duplicates, no log and no deletion.
C9_NoDuplicatesNoLog == [][C9_NoDupStep]_vars

\* C9's case: a run over at least two files ended without duplicates and
\* there is no log file.
C9_Witness ==
    /\ pc = "done" /\ duplicates = <<>> /\ Len(all_files) >= 2
    /\ ~logFile.exists /\ cacheFile.exists

\* C10 (the step): in a run the environment does not disturb, a file is
\* deleted only while the kept file of its group is there and holds the same
\* content, and the kept file is not the file deleted.
C10_DeleteStep ==
    (AttemptsRemove /\ Quiet /\ fs' # fs) =>
        LET keptFile == duplicates[grp].paths[1] IN
        /\ fs[keptFile].exists
        /\ fs[keptFile].content = fs[CurrentDup].content
        /\ fs'[keptFile] = fs[keptFile]
        /\ \A p \in Paths \ {CurrentDup} : fs'[p] = fs[p]

\* C10 (the run): the kept file of every group an undisturbed run has taken
\* up is still there.
C10_KeptStays ==
    (Quiet /\ pc \in {"resolving", "done"}) =>
        \A k \in 1..Len(duplicates) :
            (k < grp \/ (k = grp /\ pos >= 1)) => fs[duplicates[k].paths[1]].exists

\* C10: no content is lost across runs.
C10_NoContentLost == [][C10_DeleteStep]_vars /\ []C10_KeptStays

\* C10's case: a run deleted a file while the loaded cache held, for a file
\* that is still there, an entry with the file's current (mtime, size) and the
\* hash of another content.
C10_Witness ==
    /\ pc = "done" /\ Quiet /\ total_deleted >= 1
    /\ \E p \in DOMAIN cache :
          /\ fs[p].exists
          /\ SigValue(cache[p].sig) = <<fs[p].mtime, SizeOf(fs[p].content)>>
          /\ cache[p].hash # Sha256(fs[p].content)

====
